---- MODULE Spec2Model ----
(***************************************************************************)
(* Model of the network_monitor program: the TCPConnection class           *)
(* (network.h, network.cpp), the main program (main.cpp) and the code      *)
(* fragments the README documents (ConnectionHistory copy constructor,     *)
(* isValidIPv4).                                                           *)
(*                                                                         *)
(* Text is a sequence of one-character strings; a C string is such a       *)
(* sequence stored in a char array and ended by NUL.                       *)
(***************************************************************************)
EXTENDS Integers, Sequences, FiniteSets, TLC

VARIABLES
    heap,        \* free store: the char arrays made by new char[], in allocation order
    objs,        \* the connection objects ever created: [kind, ipAddress, port, alive]
    ctorArgs,    \* history: for each object the text and port it was constructed from
    callerText,  \* the caller's char array handed to the constructor as const char* ip
    oobWrite,    \* TRUE once strcpy has written outside its destination array
    out,         \* std::cout: the lines written so far, each tagged with its writer:
                 \* an object index, 0 for main(), -1 for printSystemInfo()
    pc,          \* position of main()
    exitStatus,  \* value returned by main(), -1 while it runs
    connections, \* ConnectionHistory: the owned connection pointers, in insertion order
    count,       \* ConnectionHistory: number of connections
    addRet,      \* value returned by the last add, 0 before the first
    addLog,      \* history: the (kind, ip, port) of each add call, in call order
    listing,     \* lines of the last "Show All Connections"
    copyHist,    \* the ConnectionHistory built by the copy constructor
    ipText,      \* argument of isValidIPv4
    ipValid      \* result of isValidIPv4(ipText)

vars == <<heap, objs, ctorArgs, callerText, oobWrite, out, pc, exitStatus,
          connections, count, addRet, addLog, listing, copyHist, ipText, ipValid>>

endpointVars == <<heap, objs, ctorArgs, callerText, oobWrite>>
mainVars     == <<pc, exitStatus>>
registryVars == <<connections, count, addRet, addLog, listing, copyHist>>
ipVars       == <<ipText, ipValid>>

---------------------------------------------------------------------------
(* Bounds of the model *)

MaxObjs == 2        \* connection objects created in one behaviour
MaxOut == 2         \* lines written by displayInfo in one behaviour

---------------------------------------------------------------------------
(* Characters and text *)

NUL == "NUL"         \* the terminator '\0'
Garbage == "?"       \* content of a char that was never written

Digits == <<"0", "1", "2", "3", "4", "5", "6", "7", "8", "9">>

\* the string literals of the program, with their terminator
Lit_192_168_1_1 == <<"1","9","2",".","1","6","8",".","1",".","1", NUL>>
Lit_Empty == <<NUL>>

\* strlen: the number of chars before the first NUL
RECURSIVE StrlenFrom(_, _)
StrlenFrom(s, i) == IF s[i] = NUL THEN i - 1 ELSE StrlenFrom(s, i + 1)

Strlen(s) == StrlenFrom(s, 1)

\* operator<<(const char*): the chars before the first NUL
CStr(s) == SubSeq(s, 1, Strlen(s))

\* operator<<(int): decimal digits, most significant first, '-' for a negative
RECURSIVE DecNat(_)
DecNat(n) == IF n < 10 THEN <<Digits[n + 1]>>
             ELSE DecNat(n \div 10) \o <<Digits[(n % 10) + 1]>>

Dec(n) == IF n < 0 THEN <<"-">> \o DecNat(-n) ELSE DecNat(n)

\* strcpy(dst, src): writes src[1], src[2], ... up to and including the NUL;
\* a write at an index the destination does not have lands outside the array
Strcpy(dst, src) ==
    LET n == Strlen(src) + 1
    IN  [data |-> [i \in 1..Len(dst) |-> IF i <= n THEN src[i] ELSE dst[i]],
         oob  |-> n > Len(dst)]

\* new char[n]
NewCharArray(n) == [size |-> n, data |-> [i \in 1..n |-> Garbage], allocated |-> TRUE]

---------------------------------------------------------------------------
(* TCPConnection *)

\* inputs the callers are modelled with
CallerTexts == {Lit_192_168_1_1, Lit_Empty}
Ports == {-1, 0, 8080, 65535, 70000}

AllocSizeNoTerminator(ip) == Strlen(ip)

\* the array size the constructor asks for
AllocSize(ip) == Strlen(ip) + 1

\* TCPConnection::TCPConnection(const char* ip, int p), as a change of
\* heap, objs, oobWrite and ctorArgs
ConstructTCP(ip, p) ==
    LET buf == NewCharArray(AllocSize(ip))
        r   == Strcpy(buf.data, ip)
    IN  /\ heap' = Append(heap, [buf EXCEPT !.data = r.data])
        /\ oobWrite' = (oobWrite \/ r.oob)
        /\ objs' = Append(objs, [kind |-> "TCP", ipAddress |-> Len(heap) + 1,
                                 port |-> p, alive |-> TRUE])
        /\ ctorArgs' = Append(ctorArgs, [ip |-> CStr(ip), port |-> p])

Construct(p) ==
    /\ Len(objs) < MaxObjs
    /\ ConstructTCP(callerText, p)
    /\ UNCHANGED <<callerText, out, mainVars, registryVars, ipVars>>

TCPLabel == <<"T","C","P"," ","C","o","n","n","e","c","t","i","o","n",":"," ">>

DisplayLineNoColon(o) == TCPLabel \o CStr(heap[o.ipAddress].data) \o Dec(o.port)

\* the line TCPConnection::displayInfo() const writes for object record o
DisplayLine(o) == TCPLabel \o CStr(heap[o.ipAddress].data) \o <<":">> \o Dec(o.port)

DisplayInfoBumpsPort(i) ==
    /\ objs' = [objs EXCEPT ![i].port = IF @ < 70000 THEN @ + 1 ELSE @]
    /\ heap' = heap

\* displayInfo() is a const member: it writes no field and no array
DisplayInfoFrame(i) == objs' = objs /\ heap' = heap

DisplayInfo(i) ==
    /\ objs[i].alive
    /\ Len(out) < MaxOut
    /\ out' = Append(out, [src |-> i, line |-> DisplayLine(objs[i])])
    /\ DisplayInfoFrame(i)
    /\ UNCHANGED <<ctorArgs, callerText, oobWrite, mainVars, registryVars, ipVars>>

\* the implicitly-defined copy constructor of TCPConnection: the class
\* declares none, so each member is copied, the pointer included
CopyMembers(o) == [kind |-> o.kind, ipAddress |-> o.ipAddress, port |-> o.port, alive |-> TRUE]

Copy(i) ==
    /\ objs[i].alive
    /\ Len(objs) < MaxObjs
    /\ objs' = Append(objs, CopyMembers(objs[i]))
    /\ ctorArgs' = Append(ctorArgs, ctorArgs[i])
    /\ UNCHANGED <<heap, callerText, oobWrite, out, mainVars, registryVars, ipVars>>

\* the implicitly-defined destructor of TCPConnection followed by
\* ~NetworkConnection() {}: no statement runs, no array is released
DestroyHeap(i) == heap

Destroy(i) ==
    /\ objs[i].alive
    /\ objs' = [objs EXCEPT ![i].alive = FALSE]
    /\ heap' = DestroyHeap(i)
    /\ UNCHANGED <<ctorArgs, callerText, oobWrite, out, mainVars, registryVars, ipVars>>

\* the caller overwrites its own char array after the constructor returned
CallerWrites(t) ==
    /\ t # callerText
    /\ callerText' = t
    /\ UNCHANGED <<heap, objs, ctorArgs, oobWrite, out, mainVars, registryVars, ipVars>>

InitIdle ==
    /\ pc = "idle" /\ exitStatus = -1
    /\ connections = <<>> /\ count = 0 /\ addRet = 0 /\ addLog = <<>> /\ listing = <<>>
    /\ copyHist = [made |-> FALSE, count |-> 0, slots |-> <<>>]
    /\ ipText = <<>> /\ ipValid = FALSE

Init ==
    /\ heap = <<>> /\ objs = <<>> /\ ctorArgs = <<>>
    /\ callerText \in CallerTexts
    /\ oobWrite = FALSE
    /\ out = <<>>
    /\ InitIdle

Next ==
    \/ \E p \in Ports : Construct(p)
    \/ \E i \in 1..Len(objs) : DisplayInfo(i)
    \/ \E i \in 1..Len(objs) : Copy(i)
    \/ \E i \in 1..Len(objs) : Destroy(i)
    \/ \E t \in CallerTexts : CallerWrites(t)

Spec == Init /\ [][Next]_vars

---------------------------------------------------------------------------
(* main() *)

MaxSysLines == 3    \* lines printSystemInfo() may write

BannerLine == <<"=","=","="," ","N","e","t","w","o","r","k"," ","M","o","n","i","t","o","r"," ","=","=","=">>
CompletedLine == <<"P","r","o","g","r","a","m"," ","c","o","m","p","l","e","t","e","d"," ","s","u","c","c","e","s","s","f","u","l","l","y","!">>
MainIp == Lit_192_168_1_1
MainPort == 8080

\* what printSystemInfo() (utils.cpp) may write: host and process details
SysInfoLines == {<<"H","o","s","t","n","a","m","e">>, <<"P","I","D">>, <<"U","s","e","r">>}

RECURSIVE SeqsOfLen(_, _)
SeqsOfLen(S, n) == IF n = 0 THEN {<<>>}
                   ELSE {Append(q, x) : q \in SeqsOfLen(S, n - 1), x \in S}

SeqsUpTo(S, n) == UNION {SeqsOfLen(S, k) : k \in 0..n}

Tagged(tag, ls) == [k \in 1..Len(ls) |-> [src |-> tag, line |-> ls[k]]]

MainOrderCompletedFirst ==
    <<"banner", "sysinfo", "construct", "completed", "display", "return", "done">>

\* the statements of main() in program order
MainOrder == <<"banner", "sysinfo", "construct", "display", "completed", "return", "done">>

MainNextPc(p) == MainOrder[(CHOOSE k \in 1..Len(MainOrder) : MainOrder[k] = p) + 1]

\* std::cout << "=== Network Monitor ===" << std::endl;
MainBanner ==
    /\ pc = "banner"
    /\ out' = Append(out, [src |-> 0, line |-> BannerLine])
    /\ pc' = MainNextPc(pc)
    /\ UNCHANGED <<endpointVars, exitStatus, registryVars, ipVars>>

\* printSystemInfo();
MainPrintSystemInfo ==
    /\ pc = "sysinfo"
    /\ \E ls \in SeqsUpTo(SysInfoLines, MaxSysLines) : out' = out \o Tagged(-1, ls)
    /\ pc' = MainNextPc(pc)
    /\ UNCHANGED <<endpointVars, exitStatus, registryVars, ipVars>>

\* TCPConnection conn("192.168.1.1", 8080);
MainConstruct ==
    /\ pc = "construct"
    /\ ConstructTCP(MainIp, MainPort)
    /\ pc' = MainNextPc(pc)
    /\ UNCHANGED <<callerText, out, exitStatus, registryVars, ipVars>>

\* conn.displayInfo();
MainDisplay ==
    /\ pc = "display"
    /\ out' = Append(out, [src |-> Len(objs), line |-> DisplayLine(objs[Len(objs)])])
    /\ DisplayInfoFrame(Len(objs))
    /\ pc' = MainNextPc(pc)
    /\ UNCHANGED <<ctorArgs, callerText, oobWrite, exitStatus, registryVars, ipVars>>

\* std::cout << "Program completed successfully!" << std::endl;
MainCompleted ==
    /\ pc = "completed"
    /\ out' = Append(out, [src |-> 0, line |-> CompletedLine])
    /\ pc' = MainNextPc(pc)
    /\ UNCHANGED <<endpointVars, exitStatus, registryVars, ipVars>>

\* return 0; conn goes out of scope and its implicit destructor runs
MainReturn ==
    /\ pc = "return"
    /\ objs' = [objs EXCEPT ![Len(objs)].alive = FALSE]
    /\ heap' = DestroyHeap(Len(objs))
    /\ exitStatus' = 0
    /\ pc' = MainNextPc(pc)
    /\ UNCHANGED <<ctorArgs, callerText, oobWrite, out, registryVars, ipVars>>

InitMain ==
    /\ heap = <<>> /\ objs = <<>> /\ ctorArgs = <<>>
    /\ callerText = MainIp
    /\ oobWrite = FALSE
    /\ out = <<>>
    /\ pc = "banner" /\ exitStatus = -1
    /\ connections = <<>> /\ count = 0 /\ addRet = 0 /\ addLog = <<>> /\ listing = <<>>
    /\ copyHist = [made |-> FALSE, count |-> 0, slots |-> <<>>]
    /\ ipText = <<>> /\ ipValid = FALSE

NextMain ==
    \/ MainBanner
    \/ MainPrintSystemInfo
    \/ MainConstruct
    \/ MainDisplay
    \/ MainCompleted
    \/ MainReturn

\* main() is sequential code: each statement that is reached is executed
SpecMain == InitMain /\ [][NextMain]_vars /\ WF_vars(NextMain)

---------------------------------------------------------------------------
(* Properties of TCPConnection, checked under Spec *)

IsDigit(c) == \E d \in 1..10 : Digits[d] = c

DigitValue(c) == (CHOOSE d \in 1..10 : Digits[d] = c) - 1

\* the number a digit string denotes, read left to right
RECURSIVE ValueOf(_)
ValueOf(s) == IF s = <<>> THEN 0
              ELSE 10 * ValueOf(SubSeq(s, 1, Len(s) - 1)) + DigitValue(s[Len(s)])

\* a decimal numeral as printed for a non-negative int: digits only, no
\* leading zero unless it is "0"
IsDecimal(s) ==
    /\ Len(s) >= 1
    /\ \A k \in 1..Len(s) : IsDigit(s[k])
    /\ (Len(s) > 1 => s[1] # "0")

ValidArgs(a) == a.ip # <<>> /\ a.port \in 0..65535

\* line = "TCP Connection: " a ":" <decimal p>, nothing before, between or after
IsTcpLineOf(line, a, p) ==
    LET h == Len(TCPLabel) + Len(a) + 1
    IN  /\ Len(line) > h
        /\ SubSeq(line, 1, Len(TCPLabel)) = TCPLabel
        /\ SubSeq(line, Len(TCPLabel) + 1, h - 1) = a
        /\ line[h] = ":"
        /\ IsDecimal(SubSeq(line, h + 1, Len(line)))
        /\ ValueOf(SubSeq(line, h + 1, Len(line))) = p

MainLine == <<"T","C","P"," ","C","o","n","n","e","c","t","i","o","n",":"," ","1","9","2",".","1","6","8",".","1",".","1",":","8","0","8","0">>

\* C1: every line displayInfo() wrote for an endpoint constructed from a
\* non-empty address a and a port p in [0, 65535] is exactly
\* "TCP Connection: <a>:<decimal p>".
C1_DisplayInfoLine ==
    \A k \in 1..Len(out) :
        (out[k].src >= 1 /\ ValidArgs(ctorArgs[out[k].src]))
            => IsTcpLineOf(out[k].line, ctorArgs[out[k].src].ip, ctorArgs[out[k].src].port)

C1_Witness ==
    \E k \in 1..Len(out) :
        /\ out[k].src >= 1
        /\ ctorArgs[out[k].src] = [ip |-> CStr(Lit_192_168_1_1), port |-> 8080]
        /\ out[k].line = MainLine

\* C2: construction fails when the port is outside [0, 65535] or the address
\* is empty: no endpoint object exists that was built from such arguments,
\* and no char array allocated for one stays allocated.
C2_InvalidArgsRejected ==
    \A i \in 1..Len(objs) :
        ~ValidArgs(ctorArgs[i]) => (~objs[i].alive /\ ~heap[objs[i].ipAddress].allocated)

\* C3: two endpoint objects, one a copy of the other, never point at the
\* same char array.
C3_CopySharesNoStorage ==
    \A i, j \in 1..Len(objs) : i # j => objs[i].ipAddress # objs[j].ipAddress

\* C4: once an endpoint is destroyed the char array it held is released.
C4_DestroyReleasesStorage ==
    \A i \in 1..Len(objs) : ~objs[i].alive => ~heap[objs[i].ipAddress].allocated

\* C9: an endpoint keeps the address and port it was constructed with
\* whatever calls are made, and all displayInfo() calls on the same endpoint
\* wrote the same line.
C9_EndpointImmutable ==
    /\ \A i \in 1..Len(objs) :
           /\ objs[i].port = ctorArgs[i].port
           /\ CStr(heap[objs[i].ipAddress].data) = ctorArgs[i].ip
    /\ \A k, m \in 1..Len(out) : out[k].src = out[m].src => out[k].line = out[m].line

C9_Witness ==
    /\ Len(out) >= 2
    /\ out[1].src = out[2].src
    /\ Len(objs) >= 2

\* C10: the constructor's array has exactly strlen+1 chars and holds the
\* text and its terminator, no write went outside it, and what the endpoint
\* displays is the text it was constructed from whatever the caller's array
\* holds now.
C10_OwnCopyOfAddress ==
    /\ ~oobWrite
    /\ \A i \in 1..Len(objs) :
           LET b == heap[objs[i].ipAddress]
               a == ctorArgs[i].ip
           IN  /\ b.size = Len(a) + 1
               /\ Len(b.data) = b.size
               /\ b.data = a \o <<NUL>>
               /\ DisplayLine(objs[i]) = TCPLabel \o a \o <<":">> \o Dec(ctorArgs[i].port)

C10_Witness ==
    \E i \in 1..Len(objs) :
        /\ ctorArgs[i].ip = CStr(Lit_192_168_1_1)
        /\ callerText = Lit_Empty
        /\ \E k \in 1..Len(out) : out[k].src = i

---------------------------------------------------------------------------
(* Properties of main(), checked under SpecMain *)

C8_Order ==
    /\ Len(out) >= 1 => out[1] = [src |-> 0, line |-> BannerLine]
    /\ \A k \in 1..Len(out) :
           out[k].line = MainLine =>
               /\ k > 1
               /\ \A m \in 1..(k - 1) : out[m].line # CompletedLine
               /\ \A m \in 2..(k - 1) : out[m].src = -1
    /\ \A k \in 1..Len(out) : out[k].line = CompletedLine => k > 1 /\ out[k - 1].line = MainLine
    /\ pc = "done" =>
           /\ exitStatus = 0
           /\ out[Len(out)].line = CompletedLine
           /\ Cardinality({k \in 1..Len(out) : out[k].line = MainLine}) = 1
    /\ pc # "done" => exitStatus = -1

---------------------------------------------------------------------------
(* ConnectionHistory: the registry of the interactive menu *)

MaxCount == 3       \* connections added to one history

Lit_192_168_1_100 == <<"1","9","2",".","1","6","8",".","1",".","1","0","0", NUL>>
Lit_8_8_8_8 == <<"8",".","8",".","8",".","8", NUL>>

\* what the menu's "Add ... Connection" entries are given
AddInputs == {[ip |-> Lit_192_168_1_100, port |-> 8080], [ip |-> Lit_8_8_8_8, port |-> 53]}

\* a UDP connection object: built as TCPConnection is, with its own kind
ConstructUDP(ip, p) ==
    LET buf == NewCharArray(AllocSize(ip))
        r   == Strcpy(buf.data, ip)
    IN  /\ heap' = Append(heap, [buf EXCEPT !.data = r.data])
        /\ oobWrite' = (oobWrite \/ r.oob)
        /\ objs' = Append(objs, [kind |-> "UDP", ipAddress |-> Len(heap) + 1,
                                 port |-> p, alive |-> TRUE])
        /\ ctorArgs' = Append(ctorArgs, [ip |-> CStr(ip), port |-> p])

AddPointerZeroBased(kind, in) ==
    /\ count < MaxCount
    /\ connections' = Append(connections, Len(objs) + 1)
    /\ count' = count + 1
    /\ addRet' = count
    /\ addLog' = Append(addLog, [kind |-> kind, ip |-> CStr(in.ip), port |-> in.port])
    /\ UNCHANGED <<callerText, out, mainVars, listing, copyHist, ipVars>>

\* add: appends the pointer and returns the new element's position
AddPointer(kind, in) ==
    /\ count < MaxCount
    /\ connections' = Append(connections, Len(objs) + 1)
    /\ count' = count + 1
    /\ addRet' = count + 1
    /\ addLog' = Append(addLog, [kind |-> kind, ip |-> CStr(in.ip), port |-> in.port])
    /\ UNCHANGED <<callerText, out, mainVars, listing, copyHist, ipVars>>

\* "1. Add TCP Connection"
AddTCP(in) == ConstructTCP(in.ip, in.port) /\ AddPointer("TCP", in)

\* "2. Add UDP Connection"
AddUDP(in) == ConstructUDP(in.ip, in.port) /\ AddPointer("UDP", in)

KindLabel(kind) == IF kind = "TCP" THEN <<"T","C","P">> ELSE <<"U","D","P">>
StatusText(kind) == IF kind = "TCP" THEN <<"D","i","s","c","o","n","n","e","c","t","e","d">> ELSE <<"C","l","o","s","e","d">>
ListMid == <<" ","C","o","n","n","e","c","t","i","o","n"," ","[">>
ListStatus == <<"]"," ","S","t","a","t","u","s",":"," ">>

ListNumberFromZero(k) == k - 1

\* the number printed in front of element k (k = 1 for the first one)
ListNumber(k) == k

\* "[<n>] <Kind> Connection [<address>:<port>] Status: <status>"
ListLine(k, o) ==
    <<"[">> \o Dec(ListNumber(k)) \o <<"]", " ">> \o KindLabel(o.kind) \o ListMid
        \o CStr(heap[o.ipAddress].data) \o <<":">> \o Dec(o.port) \o ListStatus
        \o StatusText(o.kind)

\* "3. Show All Connections": one line per element, in insertion order
DisplayAll ==
    /\ listing' = [k \in 1..count |-> ListLine(k, objs[connections[k]])]
    /\ listing' # listing
    /\ UNCHANGED <<endpointVars, out, mainVars, connections, count, addRet, addLog,
                   copyHist, ipVars>>

\* the positions a copy constructor running its loop to n visits and finds
\* to hold a TCPConnection (dynamic_cast<TCPConnection*> is non-null)
TcpSlots(n) == {k \in 1..n : k <= count /\ objs[connections[k]].kind = "TCP"}

\* the k-th smallest element of a finite set of numbers
RECURSIVE Nth(_, _)
Nth(S, k) == LET m == CHOOSE x \in S : \A y \in S : x <= y
             IN  IF k = 1 THEN m ELSE Nth(S \ {m}, k - 1)

\* ConnectionHistory::ConnectionHistory(const ConnectionHistory& other): the
\* loop runs to this->count, which nothing has set (n is the value it happens
\* to hold); a TCP element is copied with TCPConnection's copy constructor,
\* any other slot is not assigned (0)
CopyHistory(n) ==
    /\ ~copyHist.made
    /\ count >= 1
    /\ LET T == TcpSlots(n)
           made == [r \in 1..Cardinality(T) |-> Nth(T, r)]
       IN  /\ objs' = objs \o [r \in 1..Len(made) |-> CopyMembers(objs[connections[made[r]]])]
           /\ ctorArgs' = ctorArgs \o [r \in 1..Len(made) |-> ctorArgs[connections[made[r]]]]
           /\ copyHist' = [made |-> TRUE, count |-> n,
                           slots |-> [k \in 1..n |->
                                        IF k \in T
                                        THEN Len(objs) + Cardinality({j \in T : j <= k})
                                        ELSE 0]]
    /\ UNCHANGED <<heap, callerText, oobWrite, out, mainVars, connections, count,
                   addRet, addLog, listing, ipVars>>

InitReg ==
    /\ heap = <<>> /\ objs = <<>> /\ ctorArgs = <<>>
    /\ callerText = Lit_Empty
    /\ oobWrite = FALSE
    /\ out = <<>>
    /\ InitIdle

NextReg ==
    \/ \E in \in AddInputs : AddTCP(in)
    \/ \E in \in AddInputs : AddUDP(in)
    \/ DisplayAll
    \/ \E n \in 0..MaxCount : CopyHistory(n)

SpecReg == InitReg /\ [][NextReg]_vars

---------------------------------------------------------------------------
(* Properties of ConnectionHistory, checked under SpecReg *)

\* C5: the copy of a history has the same count, and each of its elements
\* is a live endpoint of the same kind as the original's element at that
\* index, displays the same address and port, and shares no char array
\* with it; no slot is left unassigned.
C5_CopyIsDeep ==
    copyHist.made =>
        /\ copyHist.count = count
        /\ \A k \in 1..count :
               /\ copyHist.slots[k] # 0
               /\ objs[copyHist.slots[k]].alive
               /\ objs[copyHist.slots[k]].kind = objs[connections[k]].kind
               /\ ListLine(k, objs[copyHist.slots[k]]) = ListLine(k, objs[connections[k]])
               /\ objs[copyHist.slots[k]].ipAddress # objs[connections[k]].ipAddress

\* line = "[<decimal k>] <Kind> Connection [<ip>:<decimal port>] Status: <status>"
IsListLineOf(line, k, e) ==
    \E a \in 3..Len(line) :
        LET head == KindLabel(e.kind) \o ListMid \o e.ip \o <<":">>
            tail == ListStatus \o StatusText(e.kind)
            b    == a + 2 + Len(head)
            c    == Len(line) - Len(tail)
        IN  /\ line[1] = "["
            /\ line[a] = "]"
            /\ IsDecimal(SubSeq(line, 2, a - 1))
            /\ ValueOf(SubSeq(line, 2, a - 1)) = k
            /\ SubSeq(line, a, a + 1) = <<"]", " ">>
            /\ SubSeq(line, a + 2, b - 1) = head
            /\ IsDecimal(SubSeq(line, b, c))
            /\ ValueOf(SubSeq(line, b, c)) = e.port
            /\ SubSeq(line, c + 1, Len(line)) = tail

C6_Counts ==
    /\ count = Len(addLog)
    /\ Len(connections) = count
    /\ count >= 1 => addRet = count
    /\ \A k \in 1..count :
           /\ objs[connections[k]].kind = addLog[k].kind
           /\ ctorArgs[connections[k]] = [ip |-> addLog[k].ip, port |-> addLog[k].port]
    /\ Len(listing) <= count
    /\ \A k \in 1..Len(listing) : IsListLineOf(listing[k], k, addLog[k])

C6_AddStep ==
    Len(addLog') = Len(addLog) + 1 =>
        /\ addRet' = Len(connections')
        /\ connections'[addRet'] = Len(objs')
        /\ SubSeq(connections', 1, Len(connections)) = connections

C6_ShowStep == listing' # listing => Len(listing') = count

\* C6: starting from an empty history, count equals the number of adds, add
\* returns the position of the element it appended (earlier elements keep
\* theirs), and the listing holds one line per element, in insertion order,
\* numbered from 1.
C6_AddAndList == []C6_Counts /\ [][C6_AddStep /\ C6_ShowStep]_vars

C6_Witness ==
    /\ count = 2
    /\ listing = <<<<"[","1","]"," ","T","C","P"," ","C","o","n","n","e","c","t","i","o","n"," ","[","1","9","2",".","1","6","8",".","1",".","1","0","0",":","8","0","8","0","]"," ","S","t","a","t","u","s",":"," ","D","i","s","c","o","n","n","e","c","t","e","d">>,
                   <<"[","2","]"," ","U","D","P"," ","C","o","n","n","e","c","t","i","o","n"," ","[","8",".","8",".","8",".","8",":","5","3","]"," ","S","t","a","t","u","s",":"," ","C","l","o","s","e","d">>>>

---------------------------------------------------------------------------
(* isValidIPv4 *)

MaxSegs == 5        \* dot-separated segments of a generated input text

\* inet_pton(AF_INET, src, dst) scanning src from index i: st is
\* [octets, saw, val]: octets begun, whether the current octet has a digit,
\* and the current octet's value. Returns 1 for a dotted quad, 0 otherwise.
RECURSIVE InetPton4From(_, _, _)
InetPton4From(src, i, st) ==
    IF src[i] = NUL THEN (IF st.octets < 4 THEN 0 ELSE 1)
    ELSE IF IsDigit(src[i]) THEN
        LET new == st.val * 10 + DigitValue(src[i])
        IN  IF st.saw /\ st.val = 0 THEN 0
            ELSE IF new > 255 THEN 0
            ELSE IF ~st.saw /\ st.octets + 1 > 4 THEN 0
            ELSE InetPton4From(src, i + 1,
                    [octets |-> IF st.saw THEN st.octets ELSE st.octets + 1,
                     saw |-> TRUE, val |-> new])
    ELSE IF src[i] = "." /\ st.saw THEN
        IF st.octets = 4 THEN 0
        ELSE InetPton4From(src, i + 1, [octets |-> st.octets, saw |-> FALSE, val |-> 0])
    ELSE 0

InetPton4(src) == InetPton4From(src, 1, [octets |-> 0, saw |-> FALSE, val |-> 0])

IsValidIPv4Inverted(ip) == InetPton4(ip) = 0

\* bool isValidIPv4(const char* ip)
IsValidIPv4(ip) == InetPton4(ip) # 0

\* the segments input texts are put together from
Segs == {<<>>, <<"0">>, <<"1">>, <<"0","1">>, <<"2","5","5">>, <<"2","5","6">>,
         <<"1","x">>, <<" ","1">>}

RECURSIVE JoinDots(_)
JoinDots(q) == IF Len(q) = 1 THEN q[1] ELSE q[1] \o <<".">> \o JoinDots(Tail(q))

IpSamples == {<<"1","9","2",".","1","6","8",".","1",".","1", NUL>>, <<"2","5","6",".","1",".","1",".","1", NUL>>, <<"1",".","2",".","3", NUL>>}

\* the texts isValidIPv4 is called with: the documented samples, and up to
\* MaxSegs segments joined by dots
IsIpInput(t) ==
    \/ t \in IpSamples
    \/ \E n \in 1..MaxSegs : \E q \in [1..n -> Segs] : t = JoinDots(q) \o <<NUL>>

Validate ==
    /\ pc = "validate"
    /\ ipValid' = IsValidIPv4(ipText)
    /\ pc' = "validated"
    /\ UNCHANGED <<endpointVars, out, exitStatus, registryVars, ipText>>

InitIp ==
    /\ heap = <<>> /\ objs = <<>> /\ ctorArgs = <<>>
    /\ callerText = Lit_Empty
    /\ oobWrite = FALSE
    /\ out = <<>>
    /\ pc = "validate" /\ exitStatus = -1
    /\ connections = <<>> /\ count = 0 /\ addRet = 0 /\ addLog = <<>> /\ listing = <<>>
    /\ copyHist = [made |-> FALSE, count |-> 0, slots |-> <<>>]
    /\ IsIpInput(ipText) /\ ipValid = FALSE

NextIp == Validate

SpecIp == InitIp /\ [][NextIp]_vars

\* the dot-separated segments of a text
RECURSIVE SplitFrom(_, _, _, _)
SplitFrom(s, i, cur, acc) ==
    IF i > Len(s) THEN Append(acc, cur)
    ELSE IF s[i] = "." THEN SplitFrom(s, i + 1, <<>>, Append(acc, cur))
    ELSE SplitFrom(s, i + 1, Append(cur, s[i]), acc)

SplitDots(s) == SplitFrom(s, 1, <<>>, <<>>)

\* four dot-separated decimal octets, each a decimal numeral in [0, 255]
IsDottedQuad(s) ==
    LET q == SplitDots(s)
    IN  /\ Len(q) = 4
        /\ \A k \in 1..4 : IsDecimal(q[k]) /\ ValueOf(q[k]) <= 255

====
